---- MODULE Spec2Model ----
(***************************************************************************)
(* Model of rudas::data::Series<T, U> (src/src/data.rs): a labeled         *)
(* one-dimensional array holding two Vecs, `data` and `label`.             *)
(*                                                                         *)
(* A Vec owns a heap buffer.  `mem` is the heap of Vec buffers, addressed  *)
(* from 1; `series` holds the Series structs that are alive, each one a    *)
(* pair of buffer addresses.  A Series value is referred to by its index   *)
(* in `series`; `&Series` is that index.                                   *)
(*                                                                         *)
(* Every operation of the type is an operator from the heap and its        *)
(* arguments to an outcome record, and an action that applies it.          *)
(***************************************************************************)
EXTENDS Integers, Sequences, FiniteSets, TLC

\* Longest slice a caller passes.
MaxLen == 2
\* Most Series instances alive in one run.
MaxSeries == 2
\* Most writes a caller makes through the public fields in one run.
MaxWrites == 1

\* Element values (T = i32) and caller-supplied labels (U = i32).
Values == {1, 2}
Labels == {10, 20}
\* Elements a caller pushes through the public fields.
PushedValues == {3}
PushedLabels == {30}

SeqsUpTo(S, n) == UNION {[1..k -> S] : k \in 0..n}

VARIABLES
    inV,     \* the value slice the caller holds
    inL,     \* the label slice the caller holds
    mem,     \* heap of Vec buffers: Seq of sequences
    series,  \* live Series structs: Seq of [data: address, label: address]
    call,    \* the last call: [op, self, v, l]
    ret,     \* what the last call returned: a Series index, 0 for none
    panic,   \* the panic message of the last call, "none" when it returned
    out,     \* lines the last call wrote to stdout
    writes   \* how many writes through the public fields were made

vars == <<inV, inL, mem, series, call, ret, panic, out, writes>>

NoPanic == "none"
LengthMismatch == "Length of data and label should be equal."
IndexOutOfBounds == "index out of bounds"

----------------------------------------------------------------------------
(* Vec and slice primitives.                                               *)

\* <[T]>::to_vec / Vec::clone: a new Vec with each element cloned, in order.
to_vec(sl) == [i \in 1..Len(sl) |-> sl[i]]

\* (0..n).collect(): the integers 0, 1, ..., n-1.
collect_range(n) == [i \in 1..n |-> i - 1]

\* The contents of the two Vecs of Series s.
DataOf(S, M, s) == M[S[s].data]
LabelOf(S, M, s) == M[S[s].label]

\* A call's outcome: the heap after it, the returned Series, panic, stdout.
Returned(S, M, r) ==
    [series |-> S, mem |-> M, ret |-> r, panic |-> NoPanic, out |-> <<>>]

Panicked(S, M, msg, printed) ==
    [series |-> S, mem |-> M, ret |-> 0, panic |-> msg, out |-> printed]

\* The struct literal `Series { data: d, label: l }`: each Vec is allocated
\* in its own fresh buffer and the new Series is returned by value.
SeriesLit(S, M, d, l) ==
    LET M1 == Append(M, d)
        M2 == Append(M1, l)
    IN  Returned(Append(S, [data |-> Len(M1), label |-> Len(M2)]), M2, Len(S) + 1)

----------------------------------------------------------------------------
(* Constructors.                                                           *)

from_off_by_one(S, M, v) ==
    SeriesLit(S, M, to_vec(v), [i \in 1..Len(v) |-> i])

\* Series::from(v)
from(S, M, v) ==
    SeriesLit(S, M, to_vec(v), collect_range(Len(v)))

from_label_unchecked(S, M, v, l) ==
    SeriesLit(S, M, to_vec(v), to_vec(l))

from_label_truncating(S, M, v, l) ==
    LET n == IF Len(v) < Len(l) THEN Len(v) ELSE Len(l)
    IN  SeriesLit(S, M, SubSeq(to_vec(v), 1, n), SubSeq(to_vec(l), 1, n))

\* Series::from_label(v, l)
from_label(S, M, v, l) ==
    IF Len(v) # Len(l)
    THEN Panicked(S, M, LengthMismatch, <<>>)
    ELSE SeriesLit(S, M, to_vec(v), to_vec(l))

from_self_shallow(S, M, s) ==
    Returned(Append(S, S[s]), M, Len(S) + 1)

\* Series::from_self(s)
from_self(S, M, s) ==
    SeriesLit(S, M, to_vec(DataOf(S, M, s)), to_vec(LabelOf(S, M, s)))

from_data_keeping_labels(S, M, s) ==
    SeriesLit(S, M, to_vec(DataOf(S, M, s)), to_vec(LabelOf(S, M, s)))

\* Series::from_data(s)
from_data(S, M, s) ==
    SeriesLit(S, M, to_vec(DataOf(S, M, s)), collect_range(Len(DataOf(S, M, s))))

from_data_new_label_vs_old_label(S, M, s, l) ==
    IF Len(LabelOf(S, M, s)) # Len(l)
    THEN Panicked(S, M, LengthMismatch, <<>>)
    ELSE SeriesLit(S, M, to_vec(DataOf(S, M, s)), to_vec(LabelOf(S, M, s)))

\* Series::from_data_new_label(s, l)
from_data_new_label(S, M, s, l) ==
    IF Len(DataOf(S, M, s)) # Len(l)
    THEN Panicked(S, M, LengthMismatch, <<>>)
    ELSE SeriesLit(S, M, to_vec(DataOf(S, M, s)), to_vec(l))

----------------------------------------------------------------------------
(* Read operations.                                                        *)

\* println!("{:}\t{:}", label, value) for integer label and value.
PairLine(lab, val) == ToString(lab) \o "\t" \o ToString(val)

\* println!("type : {}", type_name::<T>()) for T = i32.
TypeLine == "type : i32"

RECURSIVE debug_loop(_, _, _, _)
\* The body of `for i in 0..self.data.len()`, from 0-based position i on,
\* with `printed` already written.  Indexing self.label[i] past the end of
\* the label Vec panics.
debug_loop(d, l, i, printed) ==
    IF i >= Len(d)
    THEN [panic |-> NoPanic, out |-> Append(printed, TypeLine)]
    ELSE IF i >= Len(l)
         THEN [panic |-> IndexOutOfBounds, out |-> printed]
         ELSE debug_loop(d, l, i + 1, Append(printed, PairLine(l[i + 1], d[i + 1])))

RECURSIVE debug_loop_reversed(_, _, _, _)
debug_loop_reversed(d, l, i, printed) ==
    IF i >= Len(d)
    THEN [panic |-> NoPanic, out |-> Append(printed, TypeLine)]
    ELSE IF i >= Len(l)
         THEN [panic |-> IndexOutOfBounds, out |-> printed]
         ELSE debug_loop_reversed(d, l, i + 1,
                                  <<PairLine(l[i + 1], d[i + 1])>> \o printed)

debug_reversed(S, M, s) ==
    LET r == debug_loop_reversed(DataOf(S, M, s), LabelOf(S, M, s), 0, <<>>)
    IN  [series |-> S, mem |-> M, ret |-> 0, panic |-> r.panic, out |-> r.out]

\* Series::debug(&self)
debug(S, M, s) ==
    LET r == debug_loop(DataOf(S, M, s), LabelOf(S, M, s), 0, <<>>)
    IN  [series |-> S, mem |-> M, ret |-> 0, panic |-> r.panic, out |-> r.out]

t_cloning(S, M, s) ==
    SeriesLit(S, M, to_vec(DataOf(S, M, s)), to_vec(LabelOf(S, M, s)))

\* Series::t(&self) -> &Self.  `self.clone()` is called on `&Self` in an impl
\* where U is not Clone, so Series<T, U>: Clone is not available and the call
\* resolves to <&Self as Clone>::clone: the reference is copied, nothing is
\* allocated, and the reference returned is `self`.
t(S, M, s) ==
    Returned(S, M, s)

----------------------------------------------------------------------------
(* The caller: one action per operation of the type.                       *)

Refs == 1..Len(series)

CallOf(op, s, v, l) == [op |-> op, self |-> s, v |-> v, l |-> l]

\* The call returns or panics; a panic ends the (single-threaded) program.
Apply(c, r) ==
    /\ panic = NoPanic
    /\ call' = c
    /\ series' = r.series
    /\ mem' = r.mem
    /\ ret' = r.ret
    /\ panic' = r.panic
    /\ out' = r.out
    /\ UNCHANGED <<inV, inL>>

\* A call of the type's API writes through no public field.
Invoke(c, r) ==
    /\ Apply(c, r)
    /\ UNCHANGED writes

\* A write through a public field; it returns nothing.
FieldWrite(c, M) ==
    /\ writes < MaxWrites
    /\ Apply(c, Returned(series, M, 0))
    /\ writes' = writes + 1

HasRoom == Len(series) < MaxSeries

From ==
    /\ HasRoom
    /\ Invoke(CallOf("from", 0, inV, <<>>), from(series, mem, inV))

FromLabel ==
    /\ HasRoom
    /\ Invoke(CallOf("from_label", 0, inV, inL), from_label(series, mem, inV, inL))

FromSelf ==
    /\ HasRoom
    /\ \E s \in Refs :
          Invoke(CallOf("from_self", s, <<>>, <<>>), from_self(series, mem, s))

FromData ==
    /\ HasRoom
    /\ \E s \in Refs :
          Invoke(CallOf("from_data", s, <<>>, <<>>), from_data(series, mem, s))

FromDataNewLabel ==
    /\ HasRoom
    /\ \E s \in Refs :
          Invoke(CallOf("from_data_new_label", s, <<>>, inL),
                from_data_new_label(series, mem, s, inL))

Debug ==
    \E s \in Refs :
        Invoke(CallOf("debug", s, <<>>, <<>>), debug(series, mem, s))

T ==
    \E s \in Refs :
        Invoke(CallOf("t", s, <<>>, <<>>), t(series, mem, s))

\* `pub data: Vec<T>`: any holder of a Series may push onto its data Vec.
DataPush ==
    \E s \in Refs, x \in PushedValues :
        FieldWrite(CallOf("data.push", s, <<x>>, <<>>),
                   [mem EXCEPT ![series[s].data] = Append(@, x)])

\* `pub label: Vec<U>`: any holder of a Series may push onto its label Vec.
LabelPush ==
    \E s \in Refs, x \in PushedLabels :
        FieldWrite(CallOf("label.push", s, <<>>, <<x>>),
                   [mem EXCEPT ![series[s].label] = Append(@, x)])

Init ==
    /\ inV \in SeqsUpTo(Values, MaxLen)
    /\ inL \in SeqsUpTo(Labels, MaxLen)
    /\ mem = <<>>
    /\ series = <<>>
    /\ call = CallOf("start", 0, <<>>, <<>>)
    /\ ret = 0
    /\ panic = NoPanic
    /\ out = <<>>
    /\ writes = 0

Next ==
    \/ From
    \/ FromLabel
    \/ FromSelf
    \/ FromData
    \/ FromDataNewLabel
    \/ Debug
    \/ T

\* Callers that use only the constructors and the two read operations.
Spec == Init /\ [][Next]_vars

NextPub ==
    \/ Next
    \/ DataPush
    \/ LabelPush

\* Callers that also write through the public fields.
SpecPub == Init /\ [][NextPub]_vars

----------------------------------------------------------------------------
(* Properties.                                                             *)

Constructors == {"from", "from_label", "from_self", "from_data", "from_data_new_label"}

\* Element-wise equality of two sequences, position by position.
SameElements(a, b) ==
    /\ Len(a) = Len(b)
    /\ \A i \in 1..Len(a) : a[i] = b[i]

\* The instances alive before a step are the same after it, contents included.
HeapKept ==
    /\ series' = series
    /\ mem' = mem

\* The Series alive before a step hold the same values and labels after it.
ContentsKept(who) ==
    \A o \in who :
        /\ DataOf(series', mem', o) = DataOf(series, mem, o)
        /\ LabelOf(series', mem', o) = LabelOf(series, mem, o)

\* C1: every Series a constructor returns, whatever constructors ran before
\* it and whichever earlier Series it was built from, has as many values as
\* labels.
C1_ConstructedLengthsEqual ==
    (call.op \in Constructors /\ panic = NoPanic) =>
        /\ ret \in Refs
        /\ Len(DataOf(series, mem, ret)) = Len(LabelOf(series, mem, ret))

\* A Series built from caller labels, then rebuilt from an earlier Series.
C1_Witness ==
    /\ call.op \in {"from_self", "from_data", "from_data_new_label"}
    /\ panic = NoPanic
    /\ ret = 2
    /\ Len(DataOf(series, mem, ret)) >= 2
    /\ \E i \in 1..Len(LabelOf(series, mem, 1)) : LabelOf(series, mem, 1)[i] \in Labels

\* C2: from_label(V, Lb) panics with the length-mismatch message and builds
\* no Series (nothing is allocated, nothing is returned) exactly when
\* len(V) # len(Lb); with equal lengths it returns a new Series.
C2_FromLabelRejectsMismatch ==
    [][call'.op = "from_label" =>
          IF Len(call'.v) # Len(call'.l)
          THEN /\ panic' = LengthMismatch
               /\ ret' = 0
               /\ HeapKept
          ELSE /\ panic' = NoPanic
               /\ ret' = Len(series) + 1
               /\ Len(series') = Len(series) + 1]_vars

\* from_label was given two values and one label, and panicked.
C2_Witness ==
    /\ call.op = "from_label"
    /\ Len(call.v) = 2
    /\ Len(call.l) = 1
    /\ panic = LengthMismatch

\* C3: at all times every Series alive has as many values as labels.
C3_LengthsEqualAtAllTimes ==
    \A s \in Refs : Len(DataOf(series, mem, s)) = Len(LabelOf(series, mem, s))

\* C4: from(V) returns, for any V, the empty one included, a Series whose
\* values are V in order and whose labels are 0, 1, ..., len(V)-1.
C4_FromDefaultLabels ==
    call.op = "from" =>
        /\ panic = NoPanic
        /\ ret \in Refs
        /\ SameElements(DataOf(series, mem, ret), call.v)
        /\ Len(LabelOf(series, mem, ret)) = Len(call.v)
        /\ \A i \in 1..Len(call.v) : LabelOf(series, mem, ret)[i] = i - 1

\* from was given two different values.
C4_Witness ==
    /\ call.op = "from"
    /\ Len(call.v) >= 2
    /\ call.v[1] # call.v[2]
    /\ ret \in Refs

\* C5: from_data_new_label(s, Lb2) with len(Lb2) = len(s.data) returns a new
\* Series with s's values and exactly the labels Lb2, and leaves s as it was;
\* with len(Lb2) # len(s.data) it panics with the length-mismatch message and
\* builds nothing.
C5_FromDataNewLabel ==
    [][call'.op = "from_data_new_label" =>
          LET s == call'.self
              l == call'.l
          IN  IF Len(l) = Len(DataOf(series, mem, s))
              THEN /\ panic' = NoPanic
                   /\ ret' = Len(series) + 1
                   /\ ret' \in 1..Len(series')
                   /\ SameElements(DataOf(series', mem', ret'), DataOf(series, mem, s))
                   /\ SameElements(LabelOf(series', mem', ret'), l)
                   /\ ContentsKept(Refs)
              ELSE /\ panic' = LengthMismatch
                   /\ ret' = 0
                   /\ HeapKept]_vars

\* Two default labels were replaced by two caller labels.
C5_Witness ==
    /\ call.op = "from_data_new_label"
    /\ panic = NoPanic
    /\ ret \in Refs
    /\ Len(call.l) >= 2
    /\ LabelOf(series, mem, call.self) # LabelOf(series, mem, ret)

\* C6: from_self(s) returns a new Series of s's length with s's values and
\* labels at every position, and the two are independent: a later push onto
\* a Vec of one Series changes the values and labels of no other Series.
C6_FromSelfIndependentCopy ==
    [][/\ call'.op = "from_self" =>
            /\ panic' = NoPanic
            /\ ret' = Len(series) + 1
            /\ ret' \in 1..Len(series')
            /\ SameElements(DataOf(series', mem', ret'), DataOf(series, mem, call'.self))
            /\ SameElements(LabelOf(series', mem', ret'), LabelOf(series, mem, call'.self))
            /\ ContentsKept(Refs)
       /\ call'.op \in {"data.push", "label.push"} =>
            /\ ContentsKept(Refs \ {call'.self})
            /\ DataOf(series', mem', call'.self) \o LabelOf(series', mem', call'.self)
                 # DataOf(series, mem, call'.self) \o LabelOf(series, mem, call'.self)]_vars

\* A value was pushed onto one of two Series that had equal values and
\* labels; the other still holds what it held.
C6_Witness ==
    /\ call.op = "data.push"
    /\ Len(series) = 2
    /\ \E a, b \in Refs :
          /\ a # b
          /\ call.self = a
          /\ Len(DataOf(series, mem, b)) >= 2
          /\ DataOf(series, mem, a) = DataOf(series, mem, b) \o call.v
          /\ LabelOf(series, mem, a) = LabelOf(series, mem, b)

\* C7: t(s) returns the very instance s: no Series and no Vec is allocated,
\* nothing is changed, and applying t to its own result gives s again.
C7_TransposeIdentity ==
    [][call'.op = "t" =>
          LET s == call'.self
              again == t(series', mem', ret')
          IN  /\ panic' = NoPanic
              /\ ret' = s
              /\ HeapKept
              /\ again.ret = ret'
              /\ again.series = series
              /\ again.mem = mem]_vars

\* t was applied to the second of two Series, of two values.
C7_Witness ==
    /\ call.op = "t"
    /\ ret = 2
    /\ Len(DataOf(series, mem, ret)) >= 2

\* C8: from_data(s) returns, whatever the labels of s, a new Series with s's
\* values and the labels 0, 1, ..., len(s.data)-1, and leaves s as it was.
C8_FromDataDefaultLabels ==
    [][call'.op = "from_data" =>
          LET s == call'.self
              n == Len(DataOf(series, mem, s))
          IN  /\ panic' = NoPanic
              /\ ret' = Len(series) + 1
              /\ ret' \in 1..Len(series')
              /\ SameElements(DataOf(series', mem', ret'), DataOf(series, mem, s))
              /\ Len(LabelOf(series', mem', ret')) = n
              /\ \A i \in 1..n : LabelOf(series', mem', ret')[i] = i - 1
              /\ ContentsKept(Refs)]_vars

\* Two caller labels were dropped for the default ones.
C8_Witness ==
    /\ call.op = "from_data"
    /\ ret \in Refs
    /\ Len(LabelOf(series, mem, call.self)) >= 2
    /\ \A i \in 1..Len(LabelOf(series, mem, call.self)) :
          LabelOf(series, mem, call.self)[i] \in Labels
    /\ LabelOf(series, mem, ret) = <<0, 1>>

\* C9: debug() on a Series of n values and n labels writes n + 1 lines: line
\* i is label i, a tab, value i, for each position in ascending order, and
\* the last line names the value type; the Series is not changed.
C9_DebugLinesInOrder ==
    [][call'.op = "debug" =>
          LET d == DataOf(series, mem, call'.self)
              l == LabelOf(series, mem, call'.self)
          IN  Len(d) = Len(l) =>
                /\ panic' = NoPanic
                /\ Len(out') = Len(d) + 1
                /\ \A i \in 1..Len(d) : out'[i] = ToString(l[i]) \o "\t" \o ToString(d[i])
                /\ out'[Len(d) + 1] = "type : i32"
                /\ HeapKept]_vars

\* debug printed two different pairs and the type line.
C9_Witness ==
    /\ call.op = "debug"
    /\ Len(out) = 3
    /\ out[1] # out[2]
    /\ DataOf(series, mem, call.self)[1] # DataOf(series, mem, call.self)[2]

\* C10: a call fails only with the length-mismatch panic, only in from_label
\* and from_data_new_label, and only when the lengths given differ; from,
\* from_self, from_data, debug and t never fail.
C10_OnlyLengthMismatchFails ==
    panic # NoPanic =>
        /\ panic = LengthMismatch
        /\ call.op \in {"from_label", "from_data_new_label"}
        /\ call.op = "from_label" => Len(call.v) # Len(call.l)
        /\ call.op = "from_data_new_label" =>
              Len(call.l) # Len(DataOf(series, mem, call.self))

====
